---- MODULE Spec2Model ----
(***************************************************************************)
(* Model of bot.py, a stock-keeping bot: an sqlite table stock(sku, name,  *)
(* qty) behind one module-level connection, three mutating helpers         *)
(* (add_or_update_sku, reduce_stock, delete_sku), two reading helpers      *)
(* (get_stock, list_all) and the command handlers that call them.          *)
(*                                                                         *)
(* Text is a sequence of one-character strings.  A handler is a coroutine: *)
(* it runs from one await to the next without giving up the event loop,    *)
(* and its position is the pc field of its task.  The table has two        *)
(* copies, the connection's view (conn, with the open transaction's        *)
(* writes) and the committed file (disk).                                  *)
(***************************************************************************)
EXTENDS Integers, Sequences, FiniteSets, TLC

(***************************************************************************)
(* Bounds of the model.                                                    *)
(***************************************************************************)
\* quantities stay within -MaxQty .. MaxQty
MaxQty == 2
\* a batch payload holds at most MaxEntries semicolon-separated segments
MaxEntries == 3
\* handlers in flight at once in SpecConc
NumTasks == 2

(***************************************************************************)
(* Text: str.strip, str.split, str.partition, " ".join, int().             *)
(***************************************************************************)
Digits == <<"0", "1", "2", "3", "4", "5", "6", "7", "8", "9">>

IsDigit(c) == \E k \in 1..Len(Digits) : Digits[k] = c

DigitVal(c) == (CHOOSE k \in 1..Len(Digits) : Digits[k] = c) - 1

IsSpace(c) == c = " "

RECURSIVE LStrip(_)
LStrip(s) ==
    IF s # <<>> /\ IsSpace(Head(s)) THEN LStrip(Tail(s)) ELSE s

RECURSIVE RStrip(_)
RStrip(s) ==
    IF s # <<>> /\ IsSpace(s[Len(s)]) THEN RStrip(SubSeq(s, 1, Len(s) - 1)) ELSE s

\* str.strip()
Strip(s) == RStrip(LStrip(s))

\* index of the first occurrence of character d in s, 0 when there is none
RECURSIVE FindFrom(_, _, _)
FindFrom(s, d, k) ==
    IF k > Len(s) THEN 0
    ELSE IF s[k] = d THEN k
    ELSE FindFrom(s, d, k + 1)

\* str.split(d): every occurrence of d separates, empty pieces are kept
RECURSIVE Split(_, _)
Split(s, d) ==
    LET k == FindFrom(s, d, 1) IN
    IF k = 0 THEN <<s>>
    ELSE <<SubSeq(s, 1, k - 1)>> \o Split(SubSeq(s, k + 1, Len(s)), d)

\* str.partition(" ")[2]: what follows the first space, empty when there is none
PartitionTail(s) ==
    LET k == FindFrom(s, " ", 1) IN
    IF k = 0 THEN <<>> ELSE SubSeq(s, k + 1, Len(s))

\* d.join(pieces)
RECURSIVE Join(_, _)
Join(pieces, d) ==
    IF pieces = <<>> THEN <<>>
    ELSE IF Len(pieces) = 1 THEN pieces[1]
    ELSE pieces[1] \o <<d>> \o Join(Tail(pieces), d)

\* [p.strip() for p in pieces]
StripAll(pieces) == [k \in 1..Len(pieces) |-> Strip(pieces[k])]

\* [p for p in pieces if p]
RECURSIVE DropEmpty(_)
DropEmpty(pieces) ==
    IF pieces = <<>> THEN <<>>
    ELSE IF Head(pieces) = <<>> THEN DropEmpty(Tail(pieces))
    ELSE <<Head(pieces)>> \o DropEmpty(Tail(pieces))

RECURSIVE DigitsValue(_, _)
DigitsValue(s, acc) ==
    IF s = <<>> THEN acc ELSE DigitsValue(Tail(s), 10 * acc + DigitVal(Head(s)))

AllDigits(s) == s # <<>> /\ \A k \in 1..Len(s) : IsDigit(s[k])

\* int(text): surrounding blanks, one optional sign, then decimal digits;
\* anything else raises ValueError (ok = FALSE)
ParseInt(text) ==
    LET s == Strip(text)
        signed == s # <<>> /\ Head(s) \in {"-", "+"}
        body == IF signed THEN Tail(s) ELSE s
    IN  IF AllDigits(body)
        THEN [ok |-> TRUE,
              val |-> IF signed /\ Head(s) = "-" THEN 0 - DigitsValue(body, 0)
                      ELSE DigitsValue(body, 0)]
        ELSE [ok |-> FALSE, val |-> 0]

(***************************************************************************)
(* The table stock(sku TEXT PRIMARY KEY, name TEXT, qty INTEGER): a set of *)
(* rows, and the SQL statements the helpers execute on it.                 *)
(***************************************************************************)
Row(sku, name, qty) == [sku |-> sku, name |-> name, qty |-> qty]

\* SELECT ... FROM stock WHERE sku = ?
SelectSku(tbl, sku) == {r \in tbl : r.sku = sku}

\* cursor.fetchone(): <<>> is None, <<r>> is the first row
fetchone(rows) == IF rows = {} THEN <<>> ELSE <<CHOOSE r \in rows : TRUE>>

\* (mutant) the UPDATE has no WHERE clause
UpdateQtyAll(tbl, sku, q) == {Row(r.sku, r.name, q) : r \in tbl}

\* UPDATE stock SET qty = ? WHERE sku = ?
UpdateQty(tbl, sku, q) ==
    {IF r.sku = sku THEN [r EXCEPT !.qty = q] ELSE r : r \in tbl}

\* INSERT INTO stock (sku, name, qty) VALUES (?, ?, ?)
InsertRow(tbl, sku, name, q) == tbl \cup {Row(sku, name, q)}

\* (mutant) DELETE FROM stock WHERE sku <> ?
DeleteOthers(tbl, sku) == {r \in tbl : r.sku = sku}

\* DELETE FROM stock WHERE sku = ?
DeleteSku(tbl, sku) == {r \in tbl : r.sku # sku}

\* the characters of the model in ascending code point (sqlite's BINARY collation)
Ascii == <<" ", "+", "-", "0", "1", "2", "3", "4", "5", "6", "7", "8", "9",
           ";", "G", "W", "X", "Y", "b", "|">>

CharCode(c) == CHOOSE k \in 1..Len(Ascii) : Ascii[k] = c

RECURSIVE TextLess(_, _)
TextLess(a, b) ==
    IF b = <<>> THEN FALSE
    ELSE IF a = <<>> THEN TRUE
    ELSE IF Head(a) = Head(b) THEN TextLess(Tail(a), Tail(b))
    ELSE CharCode(Head(a)) < CharCode(Head(b))

\* (mutant) ... ORDER BY sku DESC
RECURSIVE OrderBySkuDesc(_)
OrderBySkuDesc(rows) ==
    IF rows = {} THEN <<>>
    ELSE LET first == CHOOSE r \in rows :
                          \A o \in rows : o = r \/ ~TextLess(r.sku, o.sku)
         IN  <<first>> \o OrderBySkuDesc(rows \ {first})

\* ... ORDER BY sku
RECURSIVE OrderBySku(_)
OrderBySku(rows) ==
    IF rows = {} THEN <<>>
    ELSE LET first == CHOOSE r \in rows :
                          \A o \in rows : o = r \/ ~TextLess(o.sku, r.sku)
         IN  <<first>> \o OrderBySku(rows \ {first})

\* (mutant) the WHERE clause is missing
get_stock_any(tbl, sku) == fetchone(tbl)

get_stock(tbl, sku) == fetchone(SelectSku(tbl, sku))

list_all(tbl) == OrderBySku(tbl)

\* the quantities the model stores
InRange(q) == q \in (0 - MaxQty)..MaxQty

(***************************************************************************)
(* What a helper returns, and the lines of text a handler replies with.    *)
(***************************************************************************)
Ret(ok, val, msg, have) == [ok |-> ok, val |-> val, msg |-> msg, have |-> have]

NoRet == Ret(FALSE, 0, "", 0)

Line(kind) ==
    [kind |-> kind, sku |-> <<>>, name |-> <<>>, text |-> <<>>,
     qty |-> 0, val |-> 0, msg |-> "", have |-> 0]

(***************************************************************************)
(* The messages the model receives.  A single command arrives as the       *)
(* argument list the dispatcher split on blanks (context.args); a batch    *)
(* command arrives as the whole message text, the command word first.      *)
(***************************************************************************)
SkuTexts == {<<"X">>, <<"Y">>}

NameTexts == {<<"W">>, <<"G">>}

QtyTexts == {<<"1">>, <<"2">>, <<"-", "1">>, <<"b">>}

Msg(cmd, args, text) == [cmd |-> cmd, args |-> args, text |-> text]

AddskuMessages ==
    {Msg("addsku", <<<<"X">>, n, q>>, <<>>) : n \in NameTexts, q \in QtyTexts}
    \cup {Msg("addsku", <<<<"Y">>, <<"G">>, q>>, <<>>) : q \in QtyTexts}
    \cup {Msg("addsku", <<<<"X">>, <<"W">>>>, <<>>),
          Msg("addsku", <<<<"X">>, <<"W">>, <<"G">>, <<"1">>>>, <<>>)}

SellMessages ==
    {Msg("sell", <<s, q>>, <<>>) : s \in SkuTexts, q \in QtyTexts}
    \cup {Msg("sell", <<<<"X">>, <<"0">>>>, <<>>), Msg("sell", <<<<"X">>>>, <<>>)}

DeleteMessages == {Msg("delete", a, <<>>) : a \in {<<>>} \cup {<<s>> : s \in SkuTexts}}

StockMessages == {Msg("stock", a, <<>>) : a \in {<<>>} \cup {<<s>> : s \in SkuTexts}}

ListMessages == {Msg("list", <<>>, <<>>)}

\* the segments batch payloads are built from: well-formed, padded with
\* blanks, negative, not a number, too few fields, blank
AddSegments ==
    {<<"X", "|", "W", "|", "1">>,
     <<" ", "X", " ", "|", "G", "|", "-", "1">>,
     <<"Y", "|", "G", "|", "b">>,
     <<"X", "|", "W">>}

SellSegments ==
    {<<" ", "X", " ", "|", " ", "1">>,
     <<"X", "|", "-", "1">>,
     <<"Y", "|", "b">>,
     <<"X">>,
     <<" ">>}

\* the sequences of 1..n segments
SegmentLists(segments, n) ==
    UNION {[1..k -> segments] : k \in 1..n}

\* "/cmd" alone, with a blank payload, with blank segments only, or followed
\* by segments joined with ";"
BatchTexts(word, segments, n) ==
    {<<word>>, <<word, " ", " ">>, <<word, " ", " ", ";", " ", ";">>}
    \cup {<<word, " ">> \o Join(l, ";") : l \in SegmentLists(segments, n)}

AddbulkMessages ==
    {Msg("addbulk", <<>>, x) : x \in BatchTexts("/addbulk", AddSegments, MaxEntries)}

SellbulkMessages ==
    {Msg("sellbulk", <<>>, x) : x \in BatchTexts("/sellbulk", SellSegments, MaxEntries)}

Messages ==
    AddskuMessages \cup SellMessages \cup DeleteMessages \cup StockMessages
    \cup ListMessages \cup AddbulkMessages \cup SellbulkMessages

\* the messages in which no argument and no field carries a minus sign
HasMinus(text) == \E k \in 1..Len(text) : text[k] = "-"

NonNegMessages ==
    {m \in Messages :
        /\ ~HasMinus(m.text)
        /\ \A k \in 1..Len(m.args) : ~HasMinus(m.args[k])}

\* the messages of the concurrent specification: every mutating command on one SKU
ConcMessages ==
    {Msg("addsku", <<<<"X">>, <<"W">>, <<"1">>>>, <<>>),
     Msg("sell", <<<<"X">>, <<"1">>>>, <<>>),
     Msg("delete", <<<<"X">>>>, <<>>),
     Msg("stock", <<<<"X">>>>, <<>>),
     Msg("list", <<>>, <<>>),
     Msg("addbulk", <<>>, <<"/addbulk", " ", "X", "|", "W", "|", "1", ";",
                            "X", "|", "W", "|", "1">>),
     Msg("sellbulk", <<>>, <<"/sellbulk", " ", "X", "|", "1", ";", "X", "|", "1">>)}

\* the same commands, and a batch entry whose SKU field is empty
BlankSkuMessages ==
    ConcMessages
    \cup {Msg("addbulk", <<>>, <<"/addbulk", " ", "|", "W", "|", "1">>),
          Msg("addbulk", <<>>, <<"/addbulk", " ", " ", "|", "W", "|", "1", ";",
                                 "X", "|", "G", "|", "1">>),
          Msg("stock", <<>>, <<>>),
          Msg("delete", <<<<"Y">>>>, <<>>)}

(***************************************************************************)
(* State.                                                                  *)
(*   conn  the table as the connection db sees it (open transaction        *)
(*         included)                                                       *)
(*   disk  the committed table, what a restart finds                       *)
(*   task  the handlers: command, arguments, position and local variables  *)
(*   snap  per handler, the table as it was when the handler began to run  *)
(*         (a history variable: the code keeps no such copy)               *)
(***************************************************************************)
VARIABLES conn, disk, task, snap

vars == <<conn, disk, task, snap>>

IdleTask ==
    [cmd |-> "none", pc |-> "idle", args |-> <<>>, text |-> <<>>,
     parts |-> <<>>, i |-> 0, results |-> <<>>,
     sku |-> <<>>, name |-> <<>>, qty |-> 0, row |-> <<>>,
     ret |-> NoRet, reply |-> <<>>]

Tasks == DOMAIN task

\* (mutant) the helpers await between their SELECT and what follows it
SuspendedAfterSelect(pc) ==
    pc \in {"idle", "start", "reply", "aus_write", "rs_check", "ds_check"}

\* a coroutine that is not running: not started, or waiting in an await
Suspended(pc) == pc \in {"idle", "start", "reply"}

\* the event loop runs one coroutine at a time, from one await to the next
CanRun(t) == \A u \in Tasks \ {t} : Suspended(task[u].pc)

\* The state once the module is loaded and init_db() has created the empty
\* table.  (bot.py line 13 calls os.getenv without importing os; the model
\* takes the module as loaded, which is what every handler presupposes.)
Init ==
    /\ conn = {}
    /\ disk = {}
    /\ task = [t \in 1..1 |-> IdleTask]
    /\ snap = [t \in 1..1 |-> {}]

InitConc ==
    /\ conn = {}
    /\ disk = {}
    /\ task = [t \in 1..NumTasks |-> IdleTask]
    /\ snap = [t \in 1..NumTasks |-> {}]

\* await update.message.reply_text(...): the handler's last statement
Replying(t, lines) ==
    task' = [task EXCEPT ![t].pc = "reply", ![t].reply = lines]

\* the dispatcher hands a message to its handler
Receive(t, messages) ==
    /\ task[t].pc = "idle"
    /\ CanRun(t)
    /\ \E m \in messages :
           task' = [task EXCEPT ![t] =
                        [IdleTask EXCEPT !.cmd = m.cmd, !.args = m.args,
                                         !.text = m.text, !.pc = "start"]]
    /\ UNCHANGED <<conn, disk, snap>>

Begins(t, cmd) ==
    /\ task[t].pc = "start"
    /\ task[t].cmd = cmd
    /\ CanRun(t)
    /\ snap' = [snap EXCEPT ![t] = conn]
    /\ UNCHANGED <<conn, disk>>

(***************************************************************************)
(* The helpers, one step per statement that reads or writes the table.     *)
(***************************************************************************)
At(t, pc) == task[t].pc = pc /\ CanRun(t)

\* (mutant) the commit is missing: the file stays as it was
CommitLost(file, view) == file

\* (mutant) the commit adds the view's rows to the file's
CommitMerged(file, view) == file \cup view

\* db.commit(): the file takes the connection's view of the table
Commit(file, view) == view

\* add_or_update_sku: SELECT qty FROM stock WHERE sku = ?; row = fetchone()
AusSelect(t) ==
    /\ At(t, "aus_select")
    /\ task' = [task EXCEPT ![t].row = fetchone(SelectSku(conn, task[t].sku)),
                            ![t].pc = "aus_write"]
    /\ UNCHANGED <<conn, disk, snap>>

\* (mutant) the UPDATE sets the name as well
aus_write_rename(tbl, row, sku, name, qty) ==
    IF row # <<>>
    THEN {IF r.sku = sku THEN Row(sku, name, row[1].qty + qty) ELSE r : r \in tbl}
    ELSE InsertRow(tbl, sku, name, qty)

\* (mutant) a quantity below 0 is stored as 0
aus_write_clamp(tbl, row, sku, name, qty) ==
    LET new == IF row # <<>> THEN row[1].qty + qty ELSE qty
        kept == IF new < 0 THEN 0 ELSE new
    IN  IF row # <<>>
        THEN UpdateQty(tbl, sku, kept)
        ELSE InsertRow(tbl, sku, name, kept)

\* if row: UPDATE qty = row[0] + qty  else: INSERT (sku, name, qty)
aus_write(tbl, row, sku, name, qty) ==
    IF row # <<>>
    THEN UpdateQty(tbl, sku, row[1].qty + qty)
    ELSE InsertRow(tbl, sku, name, qty)

AusWrite(t) ==
    /\ At(t, "aus_write")
    /\ InRange(IF task[t].row # <<>> THEN task[t].row[1].qty + task[t].qty
               ELSE task[t].qty)
    /\ conn' = aus_write(conn, task[t].row, task[t].sku, task[t].name, task[t].qty)
    /\ task' = [task EXCEPT ![t].pc = "aus_commit"]
    /\ UNCHANGED <<disk, snap>>

\* db.commit(); return True
AusCommit(t) ==
    /\ At(t, "aus_commit")
    /\ disk' = Commit(disk, conn)
    /\ task' = [task EXCEPT ![t].ret = Ret(TRUE, 0, "", 0), ![t].pc = "aus_ret"]
    /\ UNCHANGED <<conn, snap>>

\* reduce_stock: SELECT qty FROM stock WHERE sku = ?; row = fetchone()
RsSelect(t) ==
    /\ At(t, "rs_select")
    /\ task' = [task EXCEPT ![t].row = fetchone(SelectSku(conn, task[t].sku)),
                            ![t].pc = "rs_check"]
    /\ UNCHANGED <<conn, disk, snap>>

\* (mutant) the test is off by one
rs_insufficient_off(amount, current) == amount > current + 1

\* (mutant) the test is missing
rs_insufficient_none(amount, current) == FALSE

\* if amount > current
rs_insufficient(amount, current) == amount > current

\* if not row: return False, "SKU not found"
RsNotFound(t) ==
    /\ At(t, "rs_check")
    /\ task[t].row = <<>>
    /\ task' = [task EXCEPT ![t].ret = Ret(FALSE, 0, "SKU not found", 0),
                            ![t].pc = "rs_ret"]
    /\ UNCHANGED <<conn, disk, snap>>

\* if amount > current: return False, f"Not enough stock (have {current})"
RsInsufficient(t) ==
    /\ At(t, "rs_check")
    /\ task[t].row # <<>>
    /\ rs_insufficient(task[t].qty, task[t].row[1].qty)
    /\ task' = [task EXCEPT ![t].ret = Ret(FALSE, 0, "Not enough stock",
                                           task[t].row[1].qty),
                            ![t].pc = "rs_ret"]
    /\ UNCHANGED <<conn, disk, snap>>

\* (mutant) the amount is taken off twice
rs_new_q_twice(current, amount) == current - amount - amount

\* new_q = current - amount
rs_new_q(current, amount) == current - amount

\* new_q = current - amount; UPDATE stock SET qty = new_q
RsWrite(t) ==
    /\ At(t, "rs_check")
    /\ task[t].row # <<>>
    /\ ~rs_insufficient(task[t].qty, task[t].row[1].qty)
    /\ LET new_q == rs_new_q(task[t].row[1].qty, task[t].qty) IN
           /\ InRange(new_q)
           /\ conn' = UpdateQty(conn, task[t].sku, new_q)
           /\ task' = [task EXCEPT ![t].pc = "rs_commit"]
    /\ UNCHANGED <<disk, snap>>

\* db.commit(); return True, new_q
RsCommit(t) ==
    /\ At(t, "rs_commit")
    /\ disk' = Commit(disk, conn)
    /\ task' = [task EXCEPT ![t].ret = Ret(TRUE, rs_new_q(task[t].row[1].qty,
                                                          task[t].qty), "", 0),
                            ![t].pc = "rs_ret"]
    /\ UNCHANGED <<conn, snap>>

\* delete_sku: SELECT sku FROM stock WHERE sku = ?; row = fetchone()
DsSelect(t) ==
    /\ At(t, "ds_select")
    /\ task' = [task EXCEPT ![t].row = fetchone(SelectSku(conn, task[t].sku)),
                            ![t].pc = "ds_check"]
    /\ UNCHANGED <<conn, disk, snap>>

\* if not row: return False
DsNotFound(t) ==
    /\ At(t, "ds_check")
    /\ task[t].row = <<>>
    /\ task' = [task EXCEPT ![t].ret = Ret(FALSE, 0, "", 0), ![t].pc = "ds_ret"]
    /\ UNCHANGED <<conn, disk, snap>>

\* DELETE FROM stock WHERE sku = ?
DsDelete(t) ==
    /\ At(t, "ds_check")
    /\ task[t].row # <<>>
    /\ conn' = DeleteSku(conn, task[t].sku)
    /\ task' = [task EXCEPT ![t].pc = "ds_commit"]
    /\ UNCHANGED <<disk, snap>>

\* db.commit(); return True
DsCommit(t) ==
    /\ At(t, "ds_commit")
    /\ disk' = Commit(disk, conn)
    /\ task' = [task EXCEPT ![t].ret = Ret(TRUE, 0, "", 0), ![t].pc = "ds_ret"]
    /\ UNCHANGED <<conn, snap>>

(***************************************************************************)
(* The single-command handlers.                                            *)
(***************************************************************************)
\* addsku: usage, " ".join(args[1:-1]), int(args[-1]), then add_or_update_sku
AddskuBegin(t) ==
    /\ Begins(t, "addsku")
    /\ LET args == task[t].args
           n == Len(args)
       IN  IF n < 3 THEN Replying(t, <<Line("Usage")>>)
           ELSE LET p == ParseInt(args[n]) IN
                IF ~p.ok THEN Replying(t, <<Line("QtyMustBeNumber")>>)
                ELSE task' = [task EXCEPT ![t].sku = args[1],
                                          ![t].name = Join(SubSeq(args, 2, n - 1), " "),
                                          ![t].qty = p.val,
                                          ![t].pc = "aus_select"]

\* reply_text(f"SKU {sku} ({name}) updated by +{qty}.")
AddskuReturn(t) ==
    /\ At(t, "aus_ret")
    /\ task[t].cmd = "addsku"
    /\ Replying(t, <<[Line("Updated") EXCEPT !.sku = task[t].sku,
                                             !.name = task[t].name,
                                             !.qty = task[t].qty]>>)
    /\ UNCHANGED <<conn, disk, snap>>

\* sell_cmd: usage, int(args[1]), then reduce_stock
SellBegin(t) ==
    /\ Begins(t, "sell")
    /\ LET args == task[t].args IN
       IF Len(args) # 2 THEN Replying(t, <<Line("Usage")>>)
       ELSE LET p == ParseInt(args[2]) IN
            IF ~p.ok THEN Replying(t, <<Line("QtyMustBeNumber")>>)
            ELSE task' = [task EXCEPT ![t].sku = args[1], ![t].qty = p.val,
                                      ![t].pc = "rs_select"]

\* f"Error: {result}" or f"Sold {qty} of {sku}. New qty: {result}"
SellReturn(t) ==
    /\ At(t, "rs_ret")
    /\ task[t].cmd = "sell"
    /\ LET r == task[t].ret IN
       IF ~r.ok
       THEN Replying(t, <<[Line("Error") EXCEPT !.msg = r.msg, !.have = r.have]>>)
       ELSE Replying(t, <<[Line("Sold") EXCEPT !.sku = task[t].sku,
                                               !.qty = task[t].qty,
                                               !.val = r.val]>>)
    /\ UNCHANGED <<conn, disk, snap>>

\* delete_cmd: usage, then delete_sku
DeleteBegin(t) ==
    /\ Begins(t, "delete")
    /\ LET args == task[t].args IN
       IF Len(args) # 1 THEN Replying(t, <<Line("Usage")>>)
       ELSE task' = [task EXCEPT ![t].sku = args[1], ![t].pc = "ds_select"]

\* "SKU not found." or f"SKU {sku} has been deleted."
DeleteReturn(t) ==
    /\ At(t, "ds_ret")
    /\ task[t].cmd = "delete"
    /\ IF ~task[t].ret.ok
       THEN Replying(t, <<Line("SkuNotFound")>>)
       ELSE Replying(t, <<[Line("Deleted") EXCEPT !.sku = task[t].sku]>>)
    /\ UNCHANGED <<conn, disk, snap>>

ItemLine(kind, r) ==
    [Line(kind) EXCEPT !.sku = r.sku, !.name = r.name, !.qty = r.qty]

\* stock_cmd: usage, get_stock, "SKU not found." or the row
StockBegin(t) ==
    /\ Begins(t, "stock")
    /\ LET args == task[t].args IN
       IF Len(args) # 1 THEN Replying(t, <<Line("Usage")>>)
       ELSE LET row == get_stock(conn, args[1]) IN
            IF row = <<>> THEN Replying(t, <<Line("SkuNotFound")>>)
            ELSE Replying(t, <<ItemLine("Stock", row[1])>>)

\* list_cmd: list_all, "No items in stock." or a heading and one line per row
ListBegin(t) ==
    /\ Begins(t, "list")
    /\ LET rows == list_all(conn) IN
       IF rows = <<>> THEN Replying(t, <<Line("NoItems")>>)
       ELSE Replying(t, <<Line("CurrentStock")>>
                        \o [k \in 1..Len(rows) |-> ItemLine("Item", rows[k])])

(***************************************************************************)
(* The batch handlers: the loop over the entries, one step per entry that  *)
(* fails to parse, and the helper's steps for an entry that parses.        *)
(***************************************************************************)
\* update.message.text.partition(" ")[2].strip()
Payload(text) == Strip(PartitionTail(text))

\* (mutant) the filter is missing: [p.strip() for p in text.split(";")]
BatchPartsKeepEmpty(text) == StripAll(Split(text, ";"))

\* [p.strip() for p in text.split(";") if p.strip()]
BatchParts(text) == DropEmpty(StripAll(Split(text, ";")))

\* [b.strip() for b in entry.split("|")]
Bits(entry) == StripAll(Split(entry, "|"))

\* (mutant) break: the loop ends at the first entry that fails
Break(i, n) == n + 1

\* continue: the loop goes on with the entry after entry i of n
Continue(i, n) == i + 1

\* (mutant) results.insert(0, line)
CollectFirst(results, line) == <<line>> \o results

\* results.append(line)
Collect(results, line) == Append(results, line)

BatchBegin(t, cmd) ==
    /\ Begins(t, cmd)
    /\ LET text == Payload(task[t].text) IN
       IF text = <<>> THEN Replying(t, <<Line("Usage")>>)
       ELSE LET parts == BatchParts(text) IN
            IF parts = <<>> THEN Replying(t, <<Line("NoValidEntries")>>)
            ELSE task' = [task EXCEPT ![t].parts = parts, ![t].i = 1,
                                      ![t].results = <<>>, ![t].pc = "loop"]

AddbulkBegin(t) == BatchBegin(t, "addbulk")

SellbulkBegin(t) == BatchBegin(t, "sellbulk")

InLoop(t, cmd) ==
    /\ At(t, "loop")
    /\ task[t].cmd = cmd
    /\ task[t].i <= Len(task[t].parts)

Skip(t, line) ==
    task' = [task EXCEPT ![t].results = Collect(task[t].results, line),
                         ![t].i = Continue(task[t].i, Len(task[t].parts))]

\* addbulk_cmd, one entry: SKU|Name|qty
AddbulkEntry(t) ==
    /\ InLoop(t, "addbulk")
    /\ LET entry == task[t].parts[task[t].i]
           bits == Bits(entry)
       IN  IF Len(bits) # 3
           THEN Skip(t, [Line("InvalidFormat") EXCEPT !.text = entry])
           ELSE LET p == ParseInt(bits[3]) IN
                IF ~p.ok
                THEN Skip(t, [Line("QtyNotNumber") EXCEPT !.sku = bits[1],
                                                          !.text = bits[3]])
                ELSE task' = [task EXCEPT ![t].sku = bits[1], ![t].name = bits[2],
                                          ![t].qty = p.val, ![t].pc = "aus_select"]
    /\ UNCHANGED <<conn, disk, snap>>

\* results.append(f"... `{sku}` +{qty} ({name})")
AddbulkReturn(t) ==
    /\ At(t, "aus_ret")
    /\ task[t].cmd = "addbulk"
    /\ task' = [task EXCEPT
           ![t].results = Collect(task[t].results,
                                  [Line("Added") EXCEPT !.sku = task[t].sku,
                                                        !.qty = task[t].qty,
                                                        !.name = task[t].name]),
           ![t].i = task[t].i + 1,
           ![t].pc = "loop"]
    /\ UNCHANGED <<conn, disk, snap>>

\* sellbulk_cmd, one entry: SKU|qty
SellbulkEntry(t) ==
    /\ InLoop(t, "sellbulk")
    /\ LET entry == task[t].parts[task[t].i]
           bits == Bits(entry)
       IN  IF Len(bits) # 2
           THEN Skip(t, [Line("InvalidFormat") EXCEPT !.text = entry])
           ELSE LET p == ParseInt(bits[2]) IN
                IF ~p.ok
                THEN Skip(t, [Line("QtyNotNumber") EXCEPT !.sku = bits[1],
                                                          !.text = bits[2]])
                ELSE task' = [task EXCEPT ![t].sku = bits[1], ![t].qty = p.val,
                                          ![t].pc = "rs_select"]
    /\ UNCHANGED <<conn, disk, snap>>

\* results.append(f"... `{sku}`: {res}") or (f"... `{sku}` - sold {qty}. New qty: {res}")
SellbulkReturn(t) ==
    /\ At(t, "rs_ret")
    /\ task[t].cmd = "sellbulk"
    /\ LET r == task[t].ret
           line == IF ~r.ok
                   THEN [Line("SellFailed") EXCEPT !.sku = task[t].sku,
                                                   !.msg = r.msg, !.have = r.have]
                   ELSE [Line("SoldBulk") EXCEPT !.sku = task[t].sku,
                                                 !.qty = task[t].qty, !.val = r.val]
       IN  task' = [task EXCEPT ![t].results = Collect(task[t].results, line),
                                ![t].i = task[t].i + 1,
                                ![t].pc = "loop"]
    /\ UNCHANGED <<conn, disk, snap>>

\* await update.message.reply_text("\n".join(results))
BatchReply(t) ==
    /\ At(t, "loop")
    /\ task[t].i > Len(task[t].parts)
    /\ Replying(t, task[t].results)
    /\ UNCHANGED <<conn, disk, snap>>

(***************************************************************************)
(* The reply is sent and the handler ends; the process dies and restarts.  *)
(***************************************************************************)
Deliver(t) ==
    /\ At(t, "reply")
    /\ task' = [task EXCEPT ![t] = IdleTask]
    /\ snap' = [snap EXCEPT ![t] = {}]
    /\ UNCHANGED <<conn, disk>>

\* the open transaction is lost with the process; init_db() reopens the file
Crash ==
    /\ \E t \in Tasks : task[t].pc # "idle"
    /\ conn' = disk
    /\ task' = [t \in Tasks |-> IdleTask]
    /\ snap' = [t \in Tasks |-> {}]
    /\ UNCHANGED disk

\* updates are handled one at a time, with the process free to die at any point
Next ==
    \/ \E t \in Tasks : Receive(t, Messages)
    \/ \E t \in Tasks : AddskuBegin(t)
    \/ \E t \in Tasks : AddskuReturn(t)
    \/ \E t \in Tasks : SellBegin(t)
    \/ \E t \in Tasks : SellReturn(t)
    \/ \E t \in Tasks : DeleteBegin(t)
    \/ \E t \in Tasks : DeleteReturn(t)
    \/ \E t \in Tasks : StockBegin(t)
    \/ \E t \in Tasks : ListBegin(t)
    \/ \E t \in Tasks : AddbulkBegin(t)
    \/ \E t \in Tasks : AddbulkEntry(t)
    \/ \E t \in Tasks : AddbulkReturn(t)
    \/ \E t \in Tasks : SellbulkBegin(t)
    \/ \E t \in Tasks : SellbulkEntry(t)
    \/ \E t \in Tasks : SellbulkReturn(t)
    \/ \E t \in Tasks : BatchReply(t)
    \/ \E t \in Tasks : AusSelect(t)
    \/ \E t \in Tasks : AusWrite(t)
    \/ \E t \in Tasks : AusCommit(t)
    \/ \E t \in Tasks : RsSelect(t)
    \/ \E t \in Tasks : RsNotFound(t)
    \/ \E t \in Tasks : RsInsufficient(t)
    \/ \E t \in Tasks : RsWrite(t)
    \/ \E t \in Tasks : RsCommit(t)
    \/ \E t \in Tasks : DsSelect(t)
    \/ \E t \in Tasks : DsNotFound(t)
    \/ \E t \in Tasks : DsDelete(t)
    \/ \E t \in Tasks : DsCommit(t)
    \/ \E t \in Tasks : Deliver(t)
    \/ Crash

Spec == Init /\ [][Next]_vars

\* handlers dispatched concurrently: they interleave at their awaits
NextConc ==
    \/ \E t \in Tasks : Receive(t, ConcMessages)
    \/ \E t \in Tasks : AddskuBegin(t)
    \/ \E t \in Tasks : AddskuReturn(t)
    \/ \E t \in Tasks : SellBegin(t)
    \/ \E t \in Tasks : SellReturn(t)
    \/ \E t \in Tasks : DeleteBegin(t)
    \/ \E t \in Tasks : DeleteReturn(t)
    \/ \E t \in Tasks : StockBegin(t)
    \/ \E t \in Tasks : ListBegin(t)
    \/ \E t \in Tasks : AddbulkBegin(t)
    \/ \E t \in Tasks : AddbulkEntry(t)
    \/ \E t \in Tasks : AddbulkReturn(t)
    \/ \E t \in Tasks : SellbulkBegin(t)
    \/ \E t \in Tasks : SellbulkEntry(t)
    \/ \E t \in Tasks : SellbulkReturn(t)
    \/ \E t \in Tasks : BatchReply(t)
    \/ \E t \in Tasks : AusSelect(t)
    \/ \E t \in Tasks : AusWrite(t)
    \/ \E t \in Tasks : AusCommit(t)
    \/ \E t \in Tasks : RsSelect(t)
    \/ \E t \in Tasks : RsNotFound(t)
    \/ \E t \in Tasks : RsInsufficient(t)
    \/ \E t \in Tasks : RsWrite(t)
    \/ \E t \in Tasks : RsCommit(t)
    \/ \E t \in Tasks : DsSelect(t)
    \/ \E t \in Tasks : DsNotFound(t)
    \/ \E t \in Tasks : DsDelete(t)
    \/ \E t \in Tasks : DsCommit(t)
    \/ \E t \in Tasks : Deliver(t)

SpecConc == InitConc /\ [][NextConc]_vars

\* the same program fed only quantities without a minus sign
NextNonNeg ==
    \/ \E t \in Tasks : Receive(t, NonNegMessages)
    \/ \E t \in Tasks : AddskuBegin(t)
    \/ \E t \in Tasks : AddskuReturn(t)
    \/ \E t \in Tasks : SellBegin(t)
    \/ \E t \in Tasks : SellReturn(t)
    \/ \E t \in Tasks : DeleteBegin(t)
    \/ \E t \in Tasks : DeleteReturn(t)
    \/ \E t \in Tasks : StockBegin(t)
    \/ \E t \in Tasks : ListBegin(t)
    \/ \E t \in Tasks : AddbulkBegin(t)
    \/ \E t \in Tasks : AddbulkEntry(t)
    \/ \E t \in Tasks : AddbulkReturn(t)
    \/ \E t \in Tasks : SellbulkBegin(t)
    \/ \E t \in Tasks : SellbulkEntry(t)
    \/ \E t \in Tasks : SellbulkReturn(t)
    \/ \E t \in Tasks : BatchReply(t)
    \/ \E t \in Tasks : AusSelect(t)
    \/ \E t \in Tasks : AusWrite(t)
    \/ \E t \in Tasks : AusCommit(t)
    \/ \E t \in Tasks : RsSelect(t)
    \/ \E t \in Tasks : RsNotFound(t)
    \/ \E t \in Tasks : RsInsufficient(t)
    \/ \E t \in Tasks : RsWrite(t)
    \/ \E t \in Tasks : RsCommit(t)
    \/ \E t \in Tasks : DsSelect(t)
    \/ \E t \in Tasks : DsNotFound(t)
    \/ \E t \in Tasks : DsDelete(t)
    \/ \E t \in Tasks : DsCommit(t)
    \/ \E t \in Tasks : Deliver(t)
    \/ Crash

SpecNonNeg == Init /\ [][NextNonNeg]_vars

\* the same program fed batch entries with an empty SKU field
NextBlankSku ==
    \/ \E t \in Tasks : Receive(t, BlankSkuMessages)
    \/ \E t \in Tasks : AddskuBegin(t)
    \/ \E t \in Tasks : AddskuReturn(t)
    \/ \E t \in Tasks : SellBegin(t)
    \/ \E t \in Tasks : SellReturn(t)
    \/ \E t \in Tasks : DeleteBegin(t)
    \/ \E t \in Tasks : DeleteReturn(t)
    \/ \E t \in Tasks : StockBegin(t)
    \/ \E t \in Tasks : ListBegin(t)
    \/ \E t \in Tasks : AddbulkBegin(t)
    \/ \E t \in Tasks : AddbulkEntry(t)
    \/ \E t \in Tasks : AddbulkReturn(t)
    \/ \E t \in Tasks : SellbulkBegin(t)
    \/ \E t \in Tasks : SellbulkEntry(t)
    \/ \E t \in Tasks : SellbulkReturn(t)
    \/ \E t \in Tasks : BatchReply(t)
    \/ \E t \in Tasks : AusSelect(t)
    \/ \E t \in Tasks : AusWrite(t)
    \/ \E t \in Tasks : AusCommit(t)
    \/ \E t \in Tasks : RsSelect(t)
    \/ \E t \in Tasks : RsNotFound(t)
    \/ \E t \in Tasks : RsInsufficient(t)
    \/ \E t \in Tasks : RsWrite(t)
    \/ \E t \in Tasks : RsCommit(t)
    \/ \E t \in Tasks : DsSelect(t)
    \/ \E t \in Tasks : DsNotFound(t)
    \/ \E t \in Tasks : DsDelete(t)
    \/ \E t \in Tasks : DsCommit(t)
    \/ \E t \in Tasks : Deliver(t)
    \/ Crash

SpecBlankSku == Init /\ [][NextBlankSku]_vars

(***************************************************************************)
(* Properties.                                                             *)
(***************************************************************************)
Present(tbl, sku) == \E r \in tbl : r.sku = sku

QtyOf(tbl, sku) == (CHOOSE r \in tbl : r.sku = sku).qty

NameOf(tbl, sku) == (CHOOSE r \in tbl : r.sku = sku).name

IsBatch(t) == task[t].cmd \in {"addbulk", "sellbulk"}

\* the upsert and the decrement of the ledger, as functions of the table
Upserted(tbl, sku, name, d) ==
    IF Present(tbl, sku)
    THEN {IF r.sku = sku THEN [r EXCEPT !.qty = r.qty + d] ELSE r : r \in tbl}
    ELSE tbl \cup {Row(sku, name, d)}

Decremented(tbl, sku, a) ==
    {IF r.sku = sku THEN [r EXCEPT !.qty = r.qty - a] ELSE r : r \in tbl}

\* the table after the entries whose outcome is Applied, in order; an error
\* outcome leaves the table as it is
RECURSIVE ApplyOutcomes(_, _)
ApplyOutcomes(tbl, lines) ==
    IF lines = <<>> THEN tbl
    ELSE LET l == Head(lines)
             next == IF l.kind = "Added" THEN Upserted(tbl, l.sku, l.name, l.qty)
                     ELSE IF l.kind = "SoldBulk" THEN Decremented(tbl, l.sku, l.qty)
                     ELSE tbl
         IN  ApplyOutcomes(next, Tail(lines))

\* C1: when a batch has run, every entry has been attempted and has its
\* outcome, and the table is the table the batch began with after applying,
\* in input order, exactly the entries whose outcome is Applied: an entry
\* that fails neither stops the loop nor undoes an earlier entry.
C1_BatchAppliesEachEntry ==
    \A t \in Tasks :
        (IsBatch(t) /\ task[t].pc = "reply" /\ task[t].parts # <<>>) =>
            /\ Len(task[t].results) = Len(task[t].parts)
            /\ conn = ApplyOutcomes(snap[t], task[t].results)

IsError(l) == l.kind \in {"InvalidFormat", "QtyNotNumber", "SellFailed"}

IsApplied(l) == l.kind \in {"Added", "SoldBulk"}

\* a batch of three has run: applied, failed, applied
C1_Witness ==
    \E t \in Tasks :
        /\ IsBatch(t) /\ task[t].pc = "reply" /\ Len(task[t].results) = 3
        /\ IsApplied(task[t].results[1])
        /\ IsError(task[t].results[2])
        /\ IsApplied(task[t].results[3])
        /\ conn # snap[t]

NonBlank(seg) == \E k \in 1..Len(seg) : seg[k] # " "

\* the non-empty semicolon-separated entries of a message's payload
Entries(text) == StripAll(SelectSeq(Split(PartitionTail(text), ";"), NonBlank))

Arity(cmd) == IF cmd = "addbulk" THEN 3 ELSE 2

\* line is an outcome of entry: it names the entry, or the entry's SKU and
\* quantity
OutcomeOf(line, entry, cmd) ==
    LET f == Bits(entry)
        n == Arity(cmd)
    IN  IF Len(f) # n THEN line.kind = "InvalidFormat" /\ line.text = entry
        ELSE /\ line.sku = f[1]
             /\ IF ~ParseInt(f[n]).ok
                THEN line.kind = "QtyNotNumber" /\ line.text = f[n]
                ELSE \/ IsApplied(line) /\ line.qty = ParseInt(f[n]).val
                     \/ line.kind = "SellFailed"

\* C2: a batch with at least one non-empty entry replies with one outcome
\* per non-empty entry, the i-th outcome being that of the i-th entry.
C2_OneOutcomePerEntryInOrder ==
    \A t \in Tasks :
        (IsBatch(t) /\ task[t].pc = "reply" /\ Entries(task[t].text) # <<>>) =>
            LET e == Entries(task[t].text) IN
            /\ Len(task[t].reply) = Len(e)
            /\ \A k \in 1..Len(e) : OutcomeOf(task[t].reply[k], e[k], task[t].cmd)

\* a batch with a blank segment has run: a failure, then a success
C2_Witness ==
    \E t \in Tasks :
        /\ IsBatch(t) /\ task[t].pc = "reply"
        /\ Len(task[t].reply) = 2
        /\ Len(Split(PartitionTail(task[t].text), ";")) = 3
        /\ IsError(task[t].reply[1])
        /\ IsApplied(task[t].reply[2])

\* the line a handler has just reported: its reply, or the last of its results
Reported(t) ==
    IF task'[t].pc = "reply" THEN task'[t].reply[1]
    ELSE task'[t].results[Len(task'[t].results)]

\* C3: reduce_stock on a present SKU with amount > current quantity returns
\* "Not enough stock (have <current>)" and writes nothing, and the sell
\* command and the batch sell report that quantity and write nothing either.
C3_InsufficientStockLeavesStore ==
    [][\A t \in Tasks :
        /\ ( /\ task[t].pc = "rs_check"
             /\ Present(conn, task[t].sku)
             /\ task[t].qty > QtyOf(conn, task[t].sku)
             /\ task'[t].pc \notin {"rs_check", "idle"} ) =>
               /\ task'[t].pc = "rs_ret"
               /\ task'[t].ret = Ret(FALSE, 0, "Not enough stock",
                                     QtyOf(conn, task[t].sku))
               /\ conn' = conn
               /\ disk' = disk
        /\ ( /\ task[t].pc = "rs_ret"
             /\ task[t].ret.msg = "Not enough stock"
             /\ task'[t].pc \notin {"rs_ret", "idle"} ) =>
               /\ Reported(t).kind \in {"Error", "SellFailed"}
               /\ Reported(t).msg = "Not enough stock"
               /\ Reported(t).have = QtyOf(conn, task[t].sku)
               /\ conn' = conn
               /\ disk' = disk
      ]_vars

\* a batch sell has just reported an entry that asked for more than there is
C3_Witness ==
    \E t \in Tasks :
        /\ task[t].cmd = "sellbulk" /\ task[t].pc = "loop"
        /\ task[t].results # <<>>
        /\ LET l == task[t].results[Len(task[t].results)] IN
               /\ l.kind = "SellFailed" /\ l.msg = "Not enough stock"
               /\ Present(conn, l.sku) /\ QtyOf(conn, l.sku) = l.have
               /\ task[t].qty > l.have

\* C4: fed only quantities >= 0 from the empty table, no stored quantity is
\* ever negative, and a successful reduce_stock returns current - amount,
\* which is >= 0 and is the quantity stored.
C4_QuantitiesNonNegative ==
    /\ \A r \in conn \cup disk : r.qty >= 0
    /\ \A t \in Tasks :
        (task[t].pc = "rs_ret" /\ task[t].ret.ok) =>
            /\ task[t].ret.val = task[t].row[1].qty - task[t].qty
            /\ task[t].ret.val >= 0
            /\ QtyOf(conn, task[t].sku) = task[t].ret.val

\* a sale has taken the last of a SKU
C4_Witness ==
    \E t \in Tasks :
        /\ task[t].pc = "rs_ret" /\ task[t].ret.ok
        /\ task[t].qty > 0 /\ task[t].ret.val = 0
        /\ QtyOf(disk, task[t].sku) = 0

\* an entry of two fields whose quantity is a negative integer
NegativeEntry(entry) ==
    LET f == Bits(entry) IN
    Len(f) = 2 /\ ParseInt(f[2]).ok /\ ParseInt(f[2]).val < 0

\* C5 (as claimed): a batch sell entry with a negative quantity gets the
\* outcome "quantity is not valid" and reduce_stock is never called for it.
C5_NegativeSellRejected ==
    \A t \in Tasks :
        task[t].cmd = "sellbulk" =>
            /\ task[t].pc \in {"rs_select", "rs_check", "rs_commit", "rs_ret"}
                   => task[t].qty >= 0
            /\ \A k \in 1..Len(task[t].results) :
                   NegativeEntry(task[t].parts[k])
                       => task[t].results[k].kind = "QtyNotNumber"

RECURSIVE SumQty(_)
SumQty(lines) == IF lines = <<>> THEN 0 ELSE Head(lines).qty + SumQty(Tail(lines))

\* the upserts a handler has made so far, as the lines it reports them with
UpsertLines(t) ==
    IF task[t].cmd = "addbulk" THEN task[t].results
    ELSE IF task[t].cmd = "addsku" /\ task[t].pc = "reply" THEN task[t].reply
    ELSE <<>>

UpsertsOf(t, sku) ==
    SelectSeq(UpsertLines(t), LAMBDA l : l.kind \in {"Added", "Updated"} /\ l.sku = sku)

\* C6: after the upserts d1..dk of a handler on one SKU, the SKU has one row;
\* if it was absent before, its quantity is d1 + ... + dk and its name the
\* name given with d1; if it was present, its quantity has grown by
\* d1 + ... + dk and its name is the one it had.
C6_UpsertsAccumulate ==
    \A t \in Tasks :
        (task[t].pc \in {"loop", "reply"}) =>
            \A k \in 1..Len(UpsertLines(t)) :
                LET sku == UpsertLines(t)[k].sku
                    ups == UpsertsOf(t, sku)
                IN  ups # <<>> =>
                    /\ Cardinality(SelectSku(conn, sku)) = 1
                    /\ IF Present(snap[t], sku)
                       THEN /\ QtyOf(conn, sku) = QtyOf(snap[t], sku) + SumQty(ups)
                            /\ NameOf(conn, sku) = NameOf(snap[t], sku)
                       ELSE /\ QtyOf(conn, sku) = SumQty(ups)
                            /\ NameOf(conn, sku) = ups[1].name

\* a batch has created a SKU and upserted it again under another name
C6_Witness ==
    \E t \in Tasks :
        /\ task[t].cmd = "addbulk" /\ task[t].pc = "reply"
        /\ \E sku \in SkuTexts :
               /\ ~Present(snap[t], sku)
               /\ Len(UpsertsOf(t, sku)) >= 2
               /\ UpsertsOf(t, sku)[2].name # UpsertsOf(t, sku)[1].name
               /\ NameOf(conn, sku) = UpsertsOf(t, sku)[1].name

\* what the helper of task t is about to store, or has stored, for its SKU
Wanted(t) ==
    IF task[t].cmd \in {"addsku", "addbulk"}
    THEN (IF task[t].row # <<>> THEN task[t].row[1].qty + task[t].qty ELSE task[t].qty)
    ELSE task[t].row[1].qty - task[t].qty

\* C7: with several handlers in flight, at most one is between two awaits;
\* the row a helper has read is still the row of the table when the helper
\* writes, and what the helper wrote is still there when it returns: no
\* other write to the SKU comes between a helper's read and its write.
C7_ReadThenWriteNotInterleaved ==
    /\ Cardinality({t \in Tasks : task[t].pc \notin {"idle", "start", "reply"}}) <= 1
    /\ \A t \in Tasks :
        /\ task[t].pc \in {"aus_write", "rs_check", "ds_check"}
               => task[t].row = fetchone(SelectSku(conn, task[t].sku))
        /\ (\/ task[t].pc \in {"aus_commit", "aus_ret", "rs_commit"}
            \/ task[t].pc = "rs_ret" /\ task[t].ret.ok)
               => /\ Present(conn, task[t].sku)
                  /\ QtyOf(conn, task[t].sku) = Wanted(t)
        /\ (\/ task[t].pc = "ds_commit"
            \/ task[t].pc = "ds_ret" /\ task[t].ret.ok)
               => ~Present(conn, task[t].sku)

\* one handler is between its read and its write of a SKU that another
\* handler, still in flight, has written
C7_Witness ==
    \E t, u \in Tasks :
        /\ t # u
        /\ task[t].pc \in {"aus_write", "rs_check"}
        /\ task[t].row # <<>>
        /\ task[u].pc = "reply" /\ task[u].cmd \in {"addbulk", "sellbulk"}
        /\ task[u].results # <<>>
        /\ task[u].results[1].sku = task[t].sku

\* a helper of task t has returned success, or t is replying after it did
ReturnedSuccess(t) ==
    \/ task[t].pc = "aus_ret"
    \/ task[t].pc \in {"rs_ret", "ds_ret"} /\ task[t].ret.ok
    \/ task[t].pc = "reply" /\ task[t].cmd \in {"addsku", "sell", "delete"}
                            /\ task[t].ret.ok

\* table tbl holds the mutation task t's helper returned success for
MutationIn(tbl, t) ==
    IF task[t].cmd = "delete" THEN ~Present(tbl, task[t].sku)
    ELSE Present(tbl, task[t].sku) /\ QtyOf(tbl, task[t].sku) = Wanted(t)

\* C8: whenever a helper has returned success the committed table holds its
\* mutation, and the table found after a crash at that point holds it too.
C8_CommittedBeforeSuccess ==
    [][\A t \in Tasks :
        ReturnedSuccess(t) =>
            /\ MutationIn(disk, t)
            /\ task'[t].pc = "idle" => MutationIn(conn', t)
      ]_vars

\* a sale has succeeded and its reply is not sent yet
C8_Witness ==
    \E t \in Tasks :
        /\ task[t].cmd = "sell" /\ task[t].pc = "reply" /\ task[t].ret.ok
        /\ task[t].reply[1].kind = "Sold"
        /\ QtyOf(disk, task[t].sku) = task[t].reply[1].val

\* C9: delete_sku on a present SKU returns True and leaves a table in which
\* get_stock finds nothing for the SKU and list_all does not list it; on an
\* absent SKU it returns False and the table, committed or not, is as it was;
\* delete_cmd replies accordingly.
C9_DeleteRemovesOrNotFound ==
    \A t \in Tasks :
        /\ task[t].pc = "ds_ret" =>
               IF Present(snap[t], task[t].sku)
               THEN /\ task[t].ret.ok
                    /\ get_stock(conn, task[t].sku) = <<>>
                    /\ \A k \in 1..Len(list_all(conn)) :
                           list_all(conn)[k].sku # task[t].sku
               ELSE /\ ~task[t].ret.ok
                    /\ conn = snap[t]
                    /\ disk = snap[t]
        /\ (task[t].cmd = "delete" /\ task[t].pc = "reply" /\ Len(task[t].args) = 1) =>
               task[t].reply[1].kind =
                   (IF Present(snap[t], task[t].sku) THEN "Deleted" ELSE "SkuNotFound")

\* a SKU has been deleted and another one is left
C9_Witness ==
    \E t \in Tasks :
        /\ task[t].pc = "ds_ret" /\ task[t].ret.ok
        /\ conn # {}
        /\ Len(list_all(conn)) = Cardinality(snap[t]) - 1

\* C10: a batch whose payload holds no non-empty entry replies with one
\* line, the usage or "No valid entries found.", collects no outcome and
\* leaves the table, committed or not, as it was.
C10_EmptyBatchIsOneError ==
    \A t \in Tasks :
        (IsBatch(t) /\ Entries(task[t].text) = <<>> /\ task[t].pc \notin {"idle", "start"}) =>
            /\ task[t].pc = "reply"
            /\ Len(task[t].reply) = 1
            /\ task[t].reply[1].kind \in {"Usage", "NoValidEntries"}
            /\ task[t].results = <<>>
            /\ conn = snap[t]
            /\ disk = snap[t]

\* a payload of blank segments has been answered, the table not being empty
C10_Witness ==
    \E t \in Tasks :
        /\ IsBatch(t) /\ task[t].pc = "reply"
        /\ task[t].reply[1].kind = "NoValidEntries"
        /\ Len(Split(PartitionTail(task[t].text), ";")) > 1
        /\ conn # {}

\* C11: list_cmd replies "No items in stock." (not "SKU not found.") on an
\* empty table, and otherwise a heading followed by one line per row of the
\* table as it is now, each row once with its name and quantity, in
\* strictly ascending order of SKU.
C11_ListIsTableInSkuOrder ==
    \A t \in Tasks :
        (task[t].cmd = "list" /\ task[t].pc = "reply") =>
            LET r == task[t].reply IN
            IF conn = {}
            THEN r = <<Line("NoItems")>>
            ELSE /\ r[1] = Line("CurrentStock")
                 /\ Len(r) = Cardinality(conn) + 1
                 /\ {Row(r[k].sku, r[k].name, r[k].qty) : k \in 2..Len(r)} = conn
                 /\ \A k \in 2..Len(r) : r[k].kind = "Item"
                 /\ \A k \in 2..(Len(r) - 1) : TextLess(r[k].sku, r[k + 1].sku)

\* two SKUs are listed
C11_Witness ==
    \E t \in Tasks :
        /\ task[t].cmd = "list" /\ task[t].pc = "reply"
        /\ Len(task[t].reply) = 3
        /\ task[t].reply[2].sku = <<"X">>
        /\ task[t].reply[3].sku = <<"Y">>

\* C12: a successful reduce_stock returns the quantity before it less the
\* amount, and get_stock then finds exactly that quantity: for sell_cmd
\* against the table the handler began with, for a batch entry against that
\* table after the entries before it.
C12_DecrementAppliedOnce ==
    \A t \in Tasks :
        /\ (task[t].cmd = "sell" /\ task[t].ret.ok /\ task[t].pc \in {"rs_ret", "reply"}) =>
               /\ Present(snap[t], task[t].sku)
               /\ task[t].ret.val = QtyOf(snap[t], task[t].sku) - task[t].qty
               /\ get_stock(conn, task[t].sku) # <<>>
               /\ get_stock(conn, task[t].sku)[1].qty = task[t].ret.val
               /\ task[t].pc = "reply" => task[t].reply[1].val = task[t].ret.val
        /\ (task[t].cmd = "sellbulk" /\ task[t].ret.ok /\ task[t].pc = "rs_ret") =>
               LET before == ApplyOutcomes(snap[t], task[t].results) IN
               /\ Present(before, task[t].sku)
               /\ task[t].ret.val = QtyOf(before, task[t].sku) - task[t].qty
               /\ get_stock(conn, task[t].sku) # <<>>
               /\ get_stock(conn, task[t].sku)[1].qty = task[t].ret.val

\* a sale of one has succeeded on a SKU that had two
C12_Witness ==
    \E t \in Tasks :
        /\ task[t].cmd = "sell" /\ task[t].pc = "rs_ret" /\ task[t].ret.ok
        /\ task[t].qty = 1
        /\ QtyOf(snap[t], task[t].sku) = 2
        /\ QtyOf(conn, task[t].sku) = 1

\* C13: a SKU enters the table, committed or not, only by the INSERT of
\* add_or_update_sku for that SKU, so a SKU never upserted is in no
\* reachable table; stock_cmd replies "SKU not found." exactly when the SKU
\* is not in the table, otherwise with the SKU's row, and writes nothing.
C13_LookupOfAbsentSkuNotFound ==
    [][/\ \A r \in conn' \cup disk' :
              ~Present(conn \cup disk, r.sku) =>
                  \E t \in Tasks :
                      /\ task[t].pc = "aus_write" /\ task'[t].pc = "aus_commit"
                      /\ task[t].sku = r.sku
       /\ \A t \in Tasks :
              (task[t].cmd = "stock" /\ task[t].pc = "start" /\ task'[t].pc = "reply") =>
                  /\ conn' = conn
                  /\ disk' = disk
                  /\ Len(task[t].args) = 1 =>
                         IF Present(conn, task[t].args[1])
                         THEN /\ task'[t].reply[1].kind = "Stock"
                              /\ Row(task'[t].reply[1].sku, task'[t].reply[1].name,
                                     task'[t].reply[1].qty) \in conn
                              /\ task'[t].reply[1].sku = task[t].args[1]
                         ELSE task'[t].reply = <<Line("SkuNotFound")>>
      ]_vars

\* a SKU that is not in the table has been looked up, another one being there
C13_Witness ==
    \E t \in Tasks :
        /\ task[t].cmd = "stock" /\ task[t].pc = "reply"
        /\ task[t].reply = <<Line("SkuNotFound")>>
        /\ Len(task[t].args) = 1
        /\ ~Present(conn, task[t].args[1])
        /\ conn # {}

\* C14: every row of the table has a SKU that is not the empty text, and no
\* two rows have the same SKU; in particular no addbulk entry whose SKU
\* field is empty after stripping, such as "|W|1", creates a row.
C14_SkusNonEmptyAndUnique ==
    /\ \A r \in conn \cup disk : r.sku # <<>>
    /\ \A tbl \in {conn, disk} : \A r1, r2 \in tbl : r1.sku = r2.sku => r1 = r2

\* C15: the outcome addbulk_cmd records for an applied entry carries the
\* resulting quantity, equal to the quantity stored for the SKU right after
\* that entry was applied.
C15_AddedCarriesResultingQty ==
    \A t \in Tasks :
        (/\ task[t].cmd = "addbulk" /\ task[t].pc = "loop"
         /\ task[t].results # <<>>
         /\ task[t].results[Len(task[t].results)].kind = "Added") =>
            LET l == task[t].results[Len(task[t].results)] IN
            /\ Present(conn, l.sku)
            /\ l.val = QtyOf(conn, l.sku)

\* C16: add_or_update_sku has no failing exit and takes any integer: its
\* steps lead from the SELECT to the write, the commit and the return of
\* True, and the write stores old + qty for a SKU that is there and qty for
\* one that is not, below 0 included; reduce_stock with an amount >= 0 on a
\* SKU stored below 0 returns "Not enough stock" and writes nothing.
C16_UpsertTakesAnyInteger ==
    [][\A t \in Tasks :
         /\ (task[t].pc = "aus_select" /\ task'[t].pc # "aus_select") =>
                task'[t].pc \in {"aus_write", "idle"}
         /\ (task[t].pc = "aus_write" /\ task'[t].pc # "aus_write") =>
                \/ task'[t].pc = "idle"
                \/ /\ task'[t].pc = "aus_commit"
                   /\ Present(conn', task[t].sku)
                   /\ QtyOf(conn', task[t].sku) =
                          IF Present(conn, task[t].sku)
                          THEN QtyOf(conn, task[t].sku) + task[t].qty
                          ELSE task[t].qty
         /\ (task[t].pc = "aus_commit" /\ task'[t].pc # "aus_commit") =>
                \/ task'[t].pc = "idle"
                \/ /\ task'[t].pc = "aus_ret"
                   /\ task'[t].ret.ok
                   /\ disk' = conn
         /\ (/\ task[t].pc = "rs_check" /\ task'[t].pc # "rs_check"
             /\ task'[t].pc # "idle"
             /\ task[t].qty >= 0
             /\ Present(conn, task[t].sku)
             /\ QtyOf(conn, task[t].sku) < 0) =>
                /\ conn' = conn
                /\ disk' = disk
                /\ ~task'[t].ret.ok
                /\ task'[t].ret.msg = "Not enough stock"
                /\ task'[t].ret.have = QtyOf(conn, task[t].sku)
      ]_vars

\* a SKU is stored below 0, which only an upsert can have done, and a sale of
\* 0 of it has been refused
C16_Witness ==
    \E t \in Tasks :
        /\ task[t].cmd = "sell" /\ task[t].pc = "rs_ret"
        /\ task[t].qty = 0
        /\ task[t].ret.msg = "Not enough stock"
        /\ Present(disk, task[t].sku)
        /\ QtyOf(disk, task[t].sku) < 0
        /\ conn = disk

\* C17: no run of sell_cmd raises a stored quantity: once reduce_stock has
\* written, the quantity of the SKU is at most the one it had when the
\* handler began, whatever integer the quantity argument is.
C17_SellNeverIncreases ==
    \A t \in Tasks :
        (/\ task[t].cmd = "sell"
         /\ task[t].pc \in {"rs_commit", "rs_ret", "reply"}
         /\ Present(snap[t], task[t].sku)
         /\ Present(conn, task[t].sku)) =>
            QtyOf(conn, task[t].sku) <= QtyOf(snap[t], task[t].sku)

\* the rows of the SKUs other than sku
Others(tbl, sku) == {r \in tbl : r.sku # sku}

HelperPcs ==
    {"aus_select", "aus_write", "aus_commit", "rs_select", "rs_check", "rs_commit",
     "ds_select", "ds_check", "ds_commit"}

\* C18: a step of add_or_update_sku, reduce_stock or delete_sku for a SKU
\* leaves the rows of every other SKU as they were, in the connection's view
\* and in the file; get_stock and the SELECT of each helper write nothing; a
\* helper's failing return ("SKU not found", "Not enough stock", False) and a
\* handler's rejection of an entry or an argument (invalid format, quantity
\* not a number) leave the whole table as it was, and a single command that
\* failed ends with the table it began with.
C18_OtherSkusAndErrorsUntouched ==
    [][\A t \in Tasks :
         /\ (task[t].pc \in HelperPcs /\ task'[t].pc \notin {task[t].pc, "idle"}) =>
                /\ Others(conn', task[t].sku) = Others(conn, task[t].sku)
                /\ Others(disk', task[t].sku) = Others(disk, task[t].sku)
         /\ (/\ task[t].pc \in {"aus_select", "rs_select", "ds_select"}
             /\ task'[t].pc \notin {task[t].pc, "idle"}) =>
                (conn' = conn /\ disk' = disk)
         /\ (task[t].cmd = "stock" /\ task[t].pc = "start" /\ task'[t].pc = "reply") =>
                (conn' = conn /\ disk' = disk)
         /\ (/\ task[t].pc \in {"rs_check", "ds_check"}
             /\ task'[t].pc \in {"rs_ret", "ds_ret"}
             /\ ~task'[t].ret.ok) =>
                (conn' = conn /\ disk' = disk)
         /\ (/\ task[t].pc = "loop" /\ task'[t].pc = "loop"
             /\ Len(task'[t].results) = Len(task[t].results) + 1
             /\ task'[t].results[Len(task'[t].results)].kind
                    \in {"InvalidFormat", "QtyNotNumber"}) =>
                (conn' = conn /\ disk' = disk)
         /\ (/\ task[t].pc = "start" /\ task'[t].pc = "reply"
             /\ task'[t].reply[1].kind \in {"Usage", "QtyMustBeNumber"}) =>
                (conn' = conn /\ disk' = disk)
         /\ (/\ task[t].cmd \in {"sell", "delete"}
             /\ task[t].pc \in {"rs_ret", "ds_ret"}
             /\ ~task[t].ret.ok) =>
                (conn = snap[t] /\ disk = snap[t])
      ]_vars

\* an upsert has written the row of one SKU while another SKU is in the table
C18_Witness ==
    \E t \in Tasks :
        /\ task[t].pc = "aus_commit"
        /\ Others(conn, task[t].sku) # {}
        /\ Present(disk, task[t].sku)
        /\ QtyOf(conn, task[t].sku) # QtyOf(disk, task[t].sku)
        /\ \E r \in Others(conn, task[t].sku) : r.qty # QtyOf(conn, task[t].sku)

\* the pcs of a batch handler that is in its loop
BatchPcs ==
    {"loop", "aus_select", "aus_write", "aus_commit", "aus_ret",
     "rs_select", "rs_check", "rs_commit", "rs_ret"}

\* the table a batch has made durable: the one it began with after the
\* entries that have their outcome, and after the entry in hand once its
\* helper has committed
DurableOf(t) ==
    LET done == ApplyOutcomes(snap[t], task[t].results) IN
    IF task[t].pc = "aus_ret"
    THEN Upserted(done, task[t].sku, task[t].name, task[t].qty)
    ELSE IF task[t].pc = "rs_ret" /\ task[t].ret.ok
    THEN Decremented(done, task[t].sku, task[t].qty)
    ELSE done

\* C19: when the process dies while a batch is in its loop, k entries having
\* their outcome, the table found after the restart is the table the batch
\* began with after exactly the applied ones of those k entries, in order,
\* or that table after entry k+1 as well when its helper had committed:
\* never a later entry without the earlier ones, never part of an entry.
C19_CrashKeepsHandledEntries ==
    [][\A t \in Tasks :
         (/\ IsBatch(t) /\ task[t].pc \in BatchPcs
          /\ task'[t].pc = "idle") =>
             /\ Len(task[t].results) = task[t].i - 1
             /\ \A k \in 1..Len(task[t].results) :
                    OutcomeOf(task[t].results[k], task[t].parts[k], task[t].cmd)
             /\ disk' = DurableOf(t)
             /\ conn' = disk'
             /\ task[t].pc \in {"loop", "aus_select", "rs_select"} => conn = disk
      ]_vars

\* the first entry of a batch is committed and the second one's write is
\* not yet
C19_Witness ==
    \E t \in Tasks :
        /\ IsBatch(t) /\ task[t].pc \in {"aus_commit", "rs_commit"}
        /\ task[t].i = 2
        /\ IsApplied(task[t].results[1])
        /\ disk # snap[t]
        /\ conn # disk

====
